---- MODULE Spec2Model ----
(***************************************************************************)
(* Bit-level file writer (src/src/write.rs) and thread-pool sizing         *)
(* (src/src/parallelism.rs) of the Zip archiver.                           *)
(*                                                                         *)
(* A FileWriter is a byte buffer of BUFFER_LEN bytes with a bit cursor     *)
(* bit_position; full buffers are handed to the file with one write call.  *)
(* Every trait method is one action; the methods are written as operators  *)
(* over a writer record so that a method calling another (write_u64 ->     *)
(* write_byte -> update_buffer -> persist_buffer) is one atomic step.      *)
(***************************************************************************)
EXTENDS Integers, Sequences, FiniteSets, TLC

\* ------------------------------------------------------------------ bounds
\* The buffer is BUFFER_LEN bytes; the source uses 4096, the model a small
\* buffer so that buffer boundaries are crossed within a few calls.
BUFFER_LEN == 2
\* Calls made on one writer in the general specification.
MaxOps == 3
\* 1-bits written in the boundary specification (fills a buffer bit by bit).
MaxOnes == 2
\* 1-bits written before the call under test in the bit-write specification.
MaxFillOnes == 1
\* Method calls (and the drop) in which the file refuses or cuts a write.
MaxFaults == 1
\* configure_thread_pool calls made by one process.
MaxConfigCalls == 2
\* Largest hardware concurrency and largest file count of the pool model.
MaxHw == 4
MaxFiles == 5
\* Length of the file that the path names before FileWriter::new, where one
\* exists.
OldLen == 3

BUFFER_BIT_LEN == BUFFER_LEN * 8

\* ------------------------------------------------------------------ values
\* A u64 is four 16-bit limbs, least significant first (TLC integers are
\* 32-bit): n = l[1] + 2^16 l[2] + 2^32 l[3] + 2^48 l[4].
U64(a, b, c, d) == <<a, b, c, d>>

\* `x as u32` of a u8: widening, the value is kept.
AsWord(byte) == U64(byte, 0, 0, 0)

\* (n >> 8i) mod 256 of a u64, i in 0..7: the i-th byte, least significant first.
ByteOf(num, i) == (num[(i \div 2) + 1] \div (256 ^ (i % 2))) % 256

\* bitwise::get_bit(num, n): bit n of num (bit 0 = least significant).
get_bit(num, n) ==
    IF n >= 64 THEN 0 ELSE (num[(n \div 16) + 1] \div (2 ^ (n % 16))) % 2

\* bitwise::set_bit(num, n) on a buffer byte: num with bit n set, as u8.
set_bit(num, n) ==
    (IF (num \div (2 ^ n)) % 2 = 1 THEN num ELSE num + 2 ^ n) % 256

\* mem::transmute::<u64, [u8; 8]>(num): the bytes of num in the memory order
\* of the target, index 0..7.
transmute(num, target) ==
    [i \in 0..7 |-> IF target = "little" THEN ByteOf(num, i) ELSE ByteOf(num, 7 - i)]

\* `c as u8` of a char: the code point truncated to its low 8 bits.
CharAsU8(c) == c % 256

\* SymbolCode { encoded_symbol, bit_len }
SymbolCode(pattern, len) == [encoded_symbol |-> pattern, bit_len |-> len]

\* FileBlock { filename_rel, fbs: { tree_bit_size, data_bit_size },
\*             file_byte_offset, og_byte_size }
FileBlock(name, tree, data, off, og) ==
    [filename_rel |-> name, tree_bit_size |-> tree, data_bit_size |-> data,
     file_byte_offset |-> off, og_byte_size |-> og]

\* ------------------------------------------------------------------ state
VARIABLES
    bit_position,   \* FileWriter.bit_position
    buffer,         \* FileWriter.buffer: [0..BUFFER_LEN-1 -> 0..255]
    file,           \* the bytes the file has accepted, in order
    disk,           \* the content of the file at the path
    status,         \* "open" | "dropped" | "panicked"
    target,         \* byte order of the build target: "little" | "big"
    writes,         \* every File::write call: its slice, the cursor, its result
    calls,          \* every method call: its name, arguments and result
    faults,         \* calls so far in which the file refused or cut a write
    hw,             \* available_parallelism(): 0 = Err, else the count
    pool,           \* rayon's global pool: <<>> = not built, <<n>> = num_threads(n)
    pool_calls      \* every configure_thread_pool call and how it ended

vars == <<bit_position, buffer, file, disk, status, target, writes, calls,
          faults, hw, pool, pool_calls>>

ZeroBuffer == [i \in 0..(BUFFER_LEN - 1) |-> 0]

\* ------------------------------------------------------------------ the sink
\* File::write(buf) returns Err, or Ok(n) with n <= len(buf): "ok" takes the
\* whole slice, "short" all but its last byte, "err" nothing.
SinkOutcomes == {"ok", "short", "err"}

Accepted(len, o) ==
    IF o = "ok" THEN len ELSE IF o = "short" /\ len > 0 THEN len - 1 ELSE 0

\* The writer as a record, with the result of the method so far in res:
\* "Ok", "Err" (an io::Error returned) or "Panic".
W == [bit_position |-> bit_position, buffer |-> buffer, file |-> file,
      disk |-> disk, writes |-> writes, res |-> "Ok"]

\* The file opened with write(true).append(false).create(true): it starts at
\* offset 0 of whatever the path holds, and a write of data at offset off
\* replaces the bytes there and extends the file where it runs past its end.
Overwrite(old, off, data) ==
    [i \in 1..(IF Len(old) > off + Len(data) THEN Len(old) ELSE off + Len(data)) |->
        IF i > off /\ i <= off + Len(data) THEN data[i - off] ELSE old[i]]

\* ------------------------------------------------------------------ FileWriter
\* The slice end of persist_buffer.
SliceEnd(w) == w.bit_position \div 8

\* persist_buffer: one File::write of buffer[0 .. bit_position/8]; the count
\* it returns is dropped. The slice panics when its end exceeds BUFFER_LEN.
persist_buffer(w, o) ==
    IF SliceEnd(w) > BUFFER_LEN
    THEN [w EXCEPT !.res = "Panic"]
    ELSE LET data == [i \in 1..SliceEnd(w) |-> w.buffer[i - 1]]
             n == Accepted(Len(data), o)
             rec == [data |-> data, pos |-> w.bit_position, n |-> n,
                     res |-> IF o = "err" THEN "Err" ELSE "Ok"]
         IN IF o = "err"
            THEN [w EXCEPT !.res = "Err", !.writes = Append(@, rec)]
            ELSE [w EXCEPT !.file = @ \o SubSeq(data, 1, n),
                           !.disk = Overwrite(@, Len(w.file), SubSeq(data, 1, n)),
                           !.writes = Append(@, rec)]

\* The one element of a singleton set. { f(x) : x \in {e} } evaluates e once
\* and binds x to its value: the operators below use it where a step's result
\* is read more than once.
Only(S) == CHOOSE x \in S : TRUE

\* update_buffer starting the new buffer without clearing the old bytes.
update_buffer_dirty(w, o) ==
    IF w.bit_position >= BUFFER_BIT_LEN
    THEN Only({ IF p.res # "Ok" THEN p ELSE [p EXCEPT !.bit_position = 0]
                : p \in {persist_buffer(w, o)} })
    ELSE w

\* update_buffer resetting the cursor and the buffer whatever the write returned.
update_buffer_eager(w, o) ==
    IF w.bit_position >= BUFFER_BIT_LEN
    THEN Only({ [p EXCEPT !.bit_position = 0, !.buffer = ZeroBuffer]
                : p \in {persist_buffer(w, o)} })
    ELSE w

\* update_buffer: at the end of the buffer persist it and start a new one.
update_buffer(w, o) ==
    IF w.bit_position >= BUFFER_BIT_LEN
    THEN Only({ IF p.res # "Ok" THEN p
                ELSE [p EXCEPT !.bit_position = 0, !.buffer = ZeroBuffer]
                : p \in {persist_buffer(w, o)} })
    ELSE w

\* align_to_byte moving to the boundary after the byte under the cursor.
align_to_byte_next(w) ==
    [w EXCEPT !.bit_position = (w.bit_position \div 8 + 1) * 8]

align_to_byte(w) ==
    [w EXCEPT !.bit_position = ((w.bit_position + 7) \div 8) * 8]

\* The bits set in either of two bytes.
ByteOr(a, b) ==
    LET bit(x, i) == (x \div (2 ^ i)) % 2
        or(i) == IF bit(a, i) + bit(b, i) > 0 THEN 2 ^ i ELSE 0
    IN or(0) + or(1) + or(2) + or(3) + or(4) + or(5) + or(6) + or(7)

\* write_byte setting the byte's bits in the byte under the cursor without
\* replacing the bits that byte holds.
write_byte_or(w, byte, o) ==
    Only({ IF u.res # "Ok" THEN u
           ELSE [u EXCEPT !.buffer[u.bit_position \div 8] = ByteOr(@, byte),
                          !.bit_position = @ + 8]
           : u \in {update_buffer(w, o)} })

write_byte(w, byte, o) ==
    Only({ IF u.res # "Ok" THEN u
           ELSE [u EXCEPT !.buffer[u.bit_position \div 8] = byte,
                          !.bit_position = @ + 8]
           : u \in {update_buffer(w, o)} })

write_bit(w, bit, o) ==
    Only({ IF u.res # "Ok" THEN u
           ELSE IF bit > 0
           THEN [u EXCEPT !.buffer[u.bit_position \div 8] =
                              set_bit(@, u.bit_position % 8),
                          !.bit_position = @ + 1]
           ELSE [u EXCEPT !.bit_position = @ + 1]
           : u \in {update_buffer(w, o)} })

\* for i in lo..hi { write_bit(get_bit(num, i))? }: the iterations in order,
\* stopping at the first that fails. The range is halved rather than peeled
\* one iteration at a time, which keeps the evaluation of 64 iterations shallow.
RECURSIVE bit_loop(_, _, _, _, _)
bit_loop(w, num, lo, hi, o) ==
    IF lo >= hi THEN w
    ELSE IF hi = lo + 1 THEN write_bit(w, get_bit(num, lo), o)
    ELSE Only({ IF r.res # "Ok" THEN r
                ELSE bit_loop(r, num, lo + (hi - lo) \div 2, hi, o)
                : r \in {bit_loop(w, num, lo, lo + (hi - lo) \div 2, o)} })

write_bits(w, byte, count, o) == bit_loop(w, AsWord(byte), 0, count, o)

\* write_symbol stopping one bit early.
write_symbol_short(w, symbol, o) ==
    bit_loop(w, symbol.encoded_symbol, 0, symbol.bit_len - 1, o)

write_symbol(w, symbol, o) ==
    bit_loop(w, symbol.encoded_symbol, 0, symbol.bit_len, o)

\* for b in bytes[i..] { write_byte(b)? }   (bytes is 1-indexed)
RECURSIVE byte_loop(_, _, _, _)
byte_loop(w, bytes, i, o) ==
    IF i > Len(bytes) THEN w
    ELSE Only({ IF r.res # "Ok" THEN r ELSE byte_loop(r, bytes, i + 1, o)
                : r \in {write_byte(w, bytes[i], o)} })

write_u64(w, num, tgt, o) ==
    byte_loop(w, [i \in 1..8 |-> transmute(num, tgt)[i - 1]], 1, o)

\* The bytes write_block hands to write_byte for the name: `c as u8` of every
\* char, then the terminator.
NameBytes(block) ==
    [i \in 1..Len(block.filename_rel) |-> CharAsU8(block.filename_rel[i])] \o <<0>>

\* for f in fields[i..] { write_u64(f)? }
RECURSIVE u64_loop(_, _, _, _, _)
u64_loop(w, fields, i, tgt, o) ==
    IF i > Len(fields) THEN w
    ELSE Only({ IF r.res # "Ok" THEN r ELSE u64_loop(r, fields, i + 1, tgt, o)
                : r \in {write_u64(w, fields[i], tgt, o)} })

\* write_block with the two size fields in the other order.
write_block_swapped(w, block, tgt, o) ==
    Only({ IF r.res # "Ok" THEN r
           ELSE u64_loop(r, <<block.data_bit_size, block.tree_bit_size,
                              block.file_byte_offset, block.og_byte_size>>, 1, tgt, o)
           : r \in {byte_loop(w, NameBytes(block), 1, o)} })

write_block(w, block, tgt, o) ==
    Only({ IF r.res # "Ok" THEN r
           ELSE u64_loop(r, <<block.tree_bit_size, block.data_bit_size,
                              block.file_byte_offset, block.og_byte_size>>, 1, tgt, o)
           : r \in {byte_loop(w, NameBytes(block), 1, o)} })

\* Drop::drop discarding the Err of persist_buffer.
drop_silent(w, o) ==
    Only({ IF p.res = "Err" THEN [p EXCEPT !.res = "Ok"] ELSE p
           : p \in {persist_buffer(w, o)} })

\* Drop::drop: persist the buffer; an Err becomes a panic.
drop(w, o) ==
    Only({ IF p.res = "Ok" THEN p ELSE [p EXCEPT !.res = "Panic"]
           : p \in {persist_buffer(w, o)} })

\* ------------------------------------------------------------------ inputs
Bits == {0, 1}
Bytes == {0, 178}
BitsBytes == {178}
Counts == {3, 7}
Symbols == {SymbolCode(U64(1430, 0, 0, 0), 11),
            SymbolCode(U64(16385, 0, 0, 0), 15)}
\* Every count of write_bits, and symbols of the shortest and the longest
\* length, for the specification of the bit-level writes.
AllBitsBytes == {178}
AllCounts == 0..8
AllSymbols == Symbols \cup {SymbolCode(U64(1, 0, 0, 0), 1),
                            SymbolCode(U64(1, 0, 0, 32768), 64),
                            SymbolCode(U64(46085, 46085, 46085, 46085), 63)}
Nums == {U64(1800, 1286, 772, 258)}
Blocks == {FileBlock(<<97, 47, 98>>, U64(37, 0, 0, 0), U64(4096, 0, 0, 0),
                     U64(128, 0, 0, 0), U64(512, 0, 0, 0)),
           FileBlock(<<233, 256>>, U64(1800, 1286, 772, 258), U64(0, 0, 0, 0),
                     U64(0, 1, 0, 0), U64(65535, 65535, 65535, 65535))}
Targets == {"little", "big"}

\* ------------------------------------------------------------------ actions
\* The file may misbehave (outcome o) in a bounded number of calls; a call
\* that reached no File::write is the same under every outcome.
Faulty(r, o) == o # "ok" /\ Len(r.writes) > Len(writes)

SinkMay(r, o) ==
    /\ Faulty(r, o) => faults < MaxFaults
    /\ faults' = IF Faulty(r, o) THEN faults + 1 ELSE faults

\* The state after a method that ended as r: its fields, the call in the
\* log, and a panic ends the program.
Return(op, arg, rr, o) ==
    \E r \in {rr} :
    /\ SinkMay(r, o)
    /\ bit_position' = r.bit_position
    /\ buffer' = r.buffer
    /\ file' = r.file
    /\ disk' = r.disk
    /\ writes' = r.writes
    /\ calls' = Append(calls, [op |-> op, arg |-> arg, res |-> r.res])
    /\ status' = IF r.res = "Panic" THEN "panicked" ELSE status
    /\ UNCHANGED <<target, hw, pool, pool_calls>>

CanCall == status = "open" /\ Len(calls) < MaxOps

AlignToByte ==
    /\ CanCall
    /\ Return("align_to_byte", <<>>, align_to_byte(W), "ok")

WriteByte ==
    \E byte \in Bytes, o \in SinkOutcomes :
        /\ CanCall
        /\ Return("write_byte", <<byte>>, write_byte(W, byte, o), o)

WriteBits ==
    \E byte \in BitsBytes, count \in Counts, o \in SinkOutcomes :
        /\ CanCall
        /\ Return("write_bits", <<byte, count>>, write_bits(W, byte, count, o), o)

WriteBit ==
    \E bit \in Bits, o \in SinkOutcomes :
        /\ CanCall
        /\ Return("write_bit", <<bit>>, write_bit(W, bit, o), o)

WriteSymbol ==
    \E symbol \in Symbols, o \in SinkOutcomes :
        /\ CanCall
        /\ Return("write_symbol", <<symbol>>, write_symbol(W, symbol, o), o)

WriteBlock ==
    \E block \in Blocks, o \in SinkOutcomes :
        /\ CanCall
        /\ Return("write_block", <<block>>, write_block(W, block, target, o), o)

WriteU64 ==
    \E num \in Nums, o \in SinkOutcomes :
        /\ CanCall
        /\ Return("write_u64", <<num>>, write_u64(W, num, target, o), o)

\* The writer goes out of scope.
Drop ==
    \E o \in SinkOutcomes :
        /\ status = "open"
        /\ \E r \in {drop(W, o)} :
              /\ SinkMay(r, o)
              /\ bit_position' = r.bit_position
              /\ buffer' = r.buffer
              /\ file' = r.file
              /\ disk' = r.disk
              /\ writes' = r.writes
              /\ status' = IF r.res = "Panic" THEN "panicked" ELSE "dropped"
        /\ UNCHANGED <<calls, target, hw, pool, pool_calls>>

\* FileWriter::new on a path that names no file yet, on a build target; no
\* pool is configured.
Init ==
    /\ bit_position = 0
    /\ buffer = ZeroBuffer
    /\ file = <<>>
    /\ disk = <<>>
    /\ status = "open"
    /\ target \in Targets
    /\ writes = <<>>
    /\ calls = <<>>
    /\ faults = 0
    /\ hw = 1
    /\ pool = <<>>
    /\ pool_calls = <<>>

Next ==
    \/ AlignToByte
    \/ WriteByte
    \/ WriteBits
    \/ WriteBit
    \/ WriteSymbol
    \/ WriteBlock
    \/ WriteU64
    \/ Drop

Spec == Init /\ [][Next]_vars

\* ------------------------------------------------------------------ existing file
\* FileWriter::new on a path that names a file of OldLen bytes.
OldFile == [i \in 1..OldLen |-> 170]

InitExisting ==
    /\ bit_position = 0
    /\ buffer = ZeroBuffer
    /\ file = <<>>
    /\ disk = OldFile
    /\ status = "open"
    /\ target \in Targets
    /\ writes = <<>>
    /\ calls = <<>>
    /\ faults = 0
    /\ hw = 1
    /\ pool = <<>>
    /\ pool_calls = <<>>

SpecExisting == InitExisting /\ [][Next]_vars

\* ------------------------------------------------------------------ boundary
\* A fresh writer filled one write_bit at a time, past the end of its first
\* buffer, then dropped.
Ones == Cardinality({k \in 1..Len(calls) : calls[k].arg[1] = 1})

FillBit ==
    \E bit \in Bits, o \in SinkOutcomes :
        /\ status = "open"
        /\ Len(calls) < BUFFER_BIT_LEN + 2
        /\ bit = 1 => Ones < MaxOnes
        /\ Return("write_bit", <<bit>>, write_bit(W, bit, o), o)

NextBoundary ==
    \/ FillBit
    \/ Drop

SpecBoundary == Init /\ [][NextBoundary]_vars

\* ------------------------------------------------------------------ bit writes
\* One write_bits or write_symbol at any cursor position of the first buffer:
\* the writer is filled bit by bit, then takes the call.
OnlyBitsBefore == \A k \in 1..Len(calls) : calls[k].op = "write_bit"

WriteBitsAt ==
    \E byte \in AllBitsBytes, count \in AllCounts, o \in SinkOutcomes :
        /\ status = "open"
        /\ OnlyBitsBefore
        /\ Return("write_bits", <<byte, count>>, write_bits(W, byte, count, o), o)

WriteSymbolAt ==
    \E symbol \in AllSymbols, o \in SinkOutcomes :
        /\ status = "open"
        /\ OnlyBitsBefore
        /\ Return("write_symbol", <<symbol>>, write_symbol(W, symbol, o), o)

FillBitAt ==
    \E bit \in Bits, o \in SinkOutcomes :
        /\ status = "open"
        /\ OnlyBitsBefore
        /\ Len(calls) < BUFFER_BIT_LEN
        /\ bit = 1 => Ones < MaxFillOnes
        /\ Return("write_bit", <<bit>>, write_bit(W, bit, o), o)

NextBits ==
    \/ FillBitAt
    \/ WriteBitsAt
    \/ WriteSymbolAt

SpecBits == Init /\ [][NextBits]_vars

\* ------------------------------------------------------------------ the pool
Min(a, b) == IF a < b THEN a ELSE b

\* configure_thread_pool taking the larger of file_count and the hardware
\* concurrency.
configure_thread_pool_max(multithreaded, file_count, avail, cur) ==
    IF multithreaded /\ avail = 0
    THEN [res |-> "Err", threads |-> <<>>, pool |-> cur]
    ELSE LET n == IF multithreaded
                  THEN (IF file_count > avail THEN file_count ELSE avail)
                  ELSE 1
         IN IF cur # <<>>
            THEN [res |-> "Panic", threads |-> <<n>>, pool |-> cur]
            ELSE [res |-> "Ok", threads |-> <<n>>, pool |-> <<n>>]

\* configure_thread_pool replacing the global pool where one exists.
configure_thread_pool_rebuild(multithreaded, file_count, avail, cur) ==
    IF multithreaded /\ avail = 0
    THEN [res |-> "Err", threads |-> <<>>, pool |-> cur]
    ELSE LET n == IF multithreaded THEN Min(file_count, avail) ELSE 1
         IN [res |-> "Ok", threads |-> <<n>>, pool |-> <<n>>]

\* configure_thread_pool(multithreaded, file_count) with available_parallelism()
\* = avail (0: Err) and the global pool cur: what it returns, the `threads`
\* it computed (<<>> when it returned before) and the global pool after it.
configure_thread_pool(multithreaded, file_count, avail, cur) ==
    IF multithreaded /\ avail = 0
    THEN [res |-> "Err", threads |-> <<>>, pool |-> cur]
    ELSE LET n == IF multithreaded THEN Min(file_count, avail) ELSE 1
         IN IF cur # <<>>
            THEN [res |-> "Panic", threads |-> <<n>>, pool |-> cur]
            ELSE [res |-> "Ok", threads |-> <<n>>, pool |-> <<n>>]

PoolAlive == \A k \in 1..Len(pool_calls) : pool_calls[k].res # "Panic"

ConfigureThreadPool ==
    \E multithreaded \in BOOLEAN, file_count \in 0..MaxFiles :
        /\ PoolAlive
        /\ Len(pool_calls) < MaxConfigCalls
        /\ LET r == configure_thread_pool(multithreaded, file_count, hw, pool)
           IN /\ pool' = r.pool
              /\ pool_calls' = Append(pool_calls,
                     [multithreaded |-> multithreaded, file_count |-> file_count,
                      threads |-> r.threads, res |-> r.res])
        /\ UNCHANGED <<bit_position, buffer, file, disk, status, target, writes,
                       calls, faults, hw>>

\* A process on a machine of any hardware concurrency up to MaxHw, or one
\* where the query fails.
InitPool ==
    /\ bit_position = 0
    /\ buffer = ZeroBuffer
    /\ file = <<>>
    /\ disk = <<>>
    /\ status = "open"
    /\ target = "little"
    /\ writes = <<>>
    /\ calls = <<>>
    /\ faults = 0
    /\ hw \in 0..MaxHw
    /\ pool = <<>>
    /\ pool_calls = <<>>

NextPool == ConfigureThreadPool

SpecPool == InitPool /\ [][NextPool]_vars

\* ------------------------------------------------------------------ observations
\* seqs[lo..hi] joined in order.
RECURSIVE Flat(_, _, _)
Flat(seqs, lo, hi) ==
    IF lo > hi THEN <<>>
    ELSE IF lo = hi THEN seqs[lo]
    ELSE Flat(seqs, lo, (lo + hi) \div 2) \o Flat(seqs, (lo + hi) \div 2 + 1, hi)

\* The bytes handed to the file by the write calls of ws that returned Ok.
FlushedOf(ws) ==
    Flat([k \in 1..Len(ws) |-> IF ws[k].res = "Ok" THEN ws[k].data ELSE <<>>],
         1, Len(ws))

\* The first n bytes of a buffer (zero beyond its end).
Prefix(buf, n) == [i \in 1..n |-> IF i <= BUFFER_LEN THEN buf[i - 1] ELSE 0]

\* The byte stream written so far: what was flushed, then the bytes of the
\* buffer the cursor has reached; and the cursor as a position in that stream.
StreamOf(ws, buf, pos) == FlushedOf(ws) \o Prefix(buf, (pos + 7) \div 8)
StreamPosOf(ws, pos) == 8 * Len(FlushedOf(ws)) + pos
Stream == StreamOf(writes, buffer, bit_position)
StreamPos == StreamPosOf(writes, bit_position)

\* Bit j of a byte sequence, least significant bit of each byte first;
\* -1 beyond its end.
BitAt(bytes, j) ==
    IF j \div 8 >= Len(bytes) THEN -1
    ELSE (bytes[(j \div 8) + 1] \div (2 ^ (j % 8))) % 2

LastCall == calls[Len(calls)]
AllOk == \A k \in 1..Len(calls) : calls[k].res = "Ok"

\* This step is a call of method op (it adds one entry to the log).
Called(op) ==
    /\ Len(calls') = Len(calls) + 1
    /\ calls'[Len(calls')].op = op
CalledOk(op) == Called(op) /\ calls'[Len(calls')].res = "Ok"

\* This step is the release of the writer.
DropStep == status = "open" /\ status' # "open" /\ calls' = calls

\* ------------------------------------------------------------------ C1
\* C1: at release with cursor pos exactly one File::write happens and it
\* carries the first ceil(pos/8) bytes of the buffer.
C1_ReleaseFlushesCeil ==
    [][DropStep =>
        /\ Len(writes') = Len(writes) + 1
        /\ writes'[Len(writes')].data = Prefix(buffer, (bit_position + 7) \div 8)]_vars

\* ------------------------------------------------------------------ C2
\* The reader of the specification, as a bit cursor a over the file's bytes:
\* read_bit takes bit a % 8 of byte a / 8 and advances by one, read_bits,
\* read_byte, read_symbol and read_u64 are repeated read_bit (read_u64 undoes
\* the writer's byte order), align_to_byte rounds the cursor up to a byte.
\* The bits a call is expected to read back, in order.
CallBits(c, tgt) ==
    IF c.op = "write_bit" THEN << IF c.arg[1] > 0 THEN 1 ELSE 0 >>
    ELSE IF c.op = "write_bits"
    THEN [i \in 1..c.arg[2] |-> get_bit(AsWord(c.arg[1]), i - 1)]
    ELSE IF c.op = "write_byte"
    THEN [i \in 1..8 |-> get_bit(AsWord(c.arg[1]), i - 1)]
    ELSE IF c.op = "write_symbol"
    THEN [i \in 1..c.arg[1].bit_len |-> get_bit(c.arg[1].encoded_symbol, i - 1)]
    ELSE IF c.op = "write_u64"
    THEN [i \in 1..64 |->
            get_bit(AsWord(transmute(c.arg[1], tgt)[(i - 1) \div 8]), (i - 1) % 8)]
    ELSE <<>>

\* Reading the calls k.. back from bit a of data gives every written value.
RECURSIVE ReadsBack(_, _, _, _, _)
ReadsBack(data, cs, k, a, tgt) ==
    IF k > Len(cs) THEN TRUE
    ELSE IF cs[k].op = "align_to_byte"
    THEN ReadsBack(data, cs, k + 1, ((a + 7) \div 8) * 8, tgt)
    ELSE LET bits == CallBits(cs[k], tgt)
         IN /\ \A i \in 1..Len(bits) : BitAt(data, a + i - 1) = bits[i]
            /\ ReadsBack(data, cs, k + 1, a + Len(bits), tgt)

NoBlockCalls == \A k \in 1..Len(calls) : calls[k].op # "write_block"

\* C2: after release, the symmetric reader calls reproduce from the file every
\* value written by write_bit / write_bits / write_byte / write_symbol /
\* write_u64, when every call succeeded and the file took every byte.
C2_RoundTrip ==
    (status = "dropped" /\ faults = 0 /\ AllOk /\ NoBlockCalls)
        => ReadsBack(file, calls, 1, 0, target)

\* ------------------------------------------------------------------ C3, C4
\* The worker count of call k of configure_thread_pool, when one was chosen.
Chose(k) == pool_calls[k].threads # <<>>
ThreadsOf(k) == pool_calls[k].threads[1]

\* C3: the chosen worker count is never zero; with parallel mode on it is
\* max(1, min(file_count, hardware_concurrency)).
C3_WorkerCountFloor ==
    \A k \in 1..Len(pool_calls) :
        Chose(k) =>
            /\ ThreadsOf(k) >= 1
            /\ pool_calls[k].multithreaded =>
                  \/ ThreadsOf(k) = 1 /\ (pool_calls[k].file_count <= 1 \/ hw = 1)
                  \/ /\ ThreadsOf(k) > 1
                     /\ ThreadsOf(k) <= pool_calls[k].file_count
                     /\ ThreadsOf(k) <= hw
                     /\ ThreadsOf(k) \in {pool_calls[k].file_count, hw}

\* C4: parallel mode off chooses 1; parallel mode on with file_count >= 1
\* chooses min(file_count, hardware_concurrency).
C4_WorkerCount ==
    \A k \in 1..Len(pool_calls) :
        Chose(k) =>
            /\ ~pool_calls[k].multithreaded => ThreadsOf(k) = 1
            /\ (pool_calls[k].multithreaded /\ pool_calls[k].file_count >= 1) =>
                  /\ ThreadsOf(k) <= pool_calls[k].file_count
                  /\ ThreadsOf(k) <= hw
                  /\ ThreadsOf(k) \in {pool_calls[k].file_count, hw}

\* Both bounds were met: more files than cores in one call, fewer in another,
\* and a call with parallel mode off.
C4_Witness ==
    /\ Len(pool_calls) >= 1
    /\ pool_calls[1].res = "Ok"
    /\ pool_calls[1].multithreaded
    /\ pool_calls[1].file_count > hw
    /\ hw >= 2
    /\ pool = <<hw>>

\* ------------------------------------------------------------------ C5
\* C5: on a fresh writer filled with write_bit, no File::write happens up to
\* and including the BUFFER_BIT_LEN-th bit; the next write_bit makes exactly
\* one, of the whole first buffer (BUFFER_BIT_LEN / 8 bytes) with the cursor
\* still at the end, and leaves the new bit alone at bit 0 of a zeroed buffer
\* with the cursor at 1.
C5_BufferBoundary ==
    [][/\ (status' = "open" /\ Len(calls') <= BUFFER_BIT_LEN /\ AllOk') =>
              (writes' = <<>> /\ bit_position' = Len(calls'))
       /\ (Len(calls) = BUFFER_BIT_LEN /\ AllOk /\ CalledOk("write_bit")) =>
              /\ Len(writes') = 1
              /\ writes'[1].data = Prefix(buffer, BUFFER_LEN)
              /\ Len(writes'[1].data) = BUFFER_BIT_LEN \div 8
              /\ writes'[1].pos = BUFFER_BIT_LEN
              /\ bit_position' = 1
              /\ buffer' = [ZeroBuffer EXCEPT ![0] = calls'[Len(calls')].arg[1]]
      ]_vars

\* The bit after a full buffer of bits, two of them ones, has been written.
C5_Witness ==
    /\ status = "open"
    /\ Len(calls) = BUFFER_BIT_LEN + 1
    /\ AllOk
    /\ Len(writes) = 1
    /\ writes[1].data # Prefix(ZeroBuffer, BUFFER_LEN)
    /\ bit_position = 1
    /\ buffer[0] = 1

\* ------------------------------------------------------------------ C6
\* C6: the cursor stays within the buffer, 0 <= bit_position <= 8 * BUFFER_LEN.
C6_CursorInRange == bit_position >= 0 /\ bit_position <= BUFFER_BIT_LEN

\* ------------------------------------------------------------------ C7
\* A write_bit or write_byte that returned the io::Error.
FailedStep ==
    /\ Called("write_bit") \/ Called("write_byte")
    /\ calls'[Len(calls')].res = "Err"

\* The failed write_bit or write_byte repeated, with the file working.
RetryStep ==
    /\ Len(calls) >= 1
    /\ LastCall.res = "Err"
    /\ LastCall.op \in {"write_bit", "write_byte"}
    /\ CalledOk(LastCall.op)
    /\ calls'[Len(calls')].arg = LastCall.arg
    /\ faults' = faults

\* C7: a write_bit or write_byte whose flush fails returns Err and leaves the
\* cursor, the buffer and the file as they were; the same call repeated once
\* the file works appends the retained buffer to the file once and places the
\* bit or byte at the start of a zeroed buffer.
C7_FailedFlushKeepsState ==
    [][/\ FailedStep =>
              /\ bit_position' = bit_position
              /\ buffer' = buffer
              /\ file' = file
       /\ RetryStep =>
              /\ file' = file \o Prefix(buffer, bit_position \div 8)
              /\ bit_position' = (IF LastCall.op = "write_bit" THEN 1 ELSE 8)
              /\ buffer' = [ZeroBuffer EXCEPT ![0] =
                               IF LastCall.op = "write_bit"
                               THEN (IF LastCall.arg[1] > 0 THEN 1 ELSE 0)
                               ELSE LastCall.arg[1]]
      ]_vars

\* A write failed on a full buffer and its repetition succeeded.
C7_Witness ==
    /\ Len(calls) >= 2
    /\ calls[Len(calls) - 1].res = "Err"
    /\ calls[Len(calls) - 1].op \in {"write_bit", "write_byte"}
    /\ LastCall.op = calls[Len(calls) - 1].op
    /\ LastCall.arg = calls[Len(calls) - 1].arg
    /\ LastCall.res = "Ok"
    /\ faults = 1
    /\ Len(writes) >= 2
    /\ writes[Len(writes) - 1].res = "Err"
    /\ writes[Len(writes)].res = "Ok"
    /\ writes[Len(writes)].data = writes[Len(writes) - 1].data
    /\ Len(writes[Len(writes)].data) = BUFFER_LEN

\* ------------------------------------------------------------------ C8, C9
\* The eight bytes of a u64, least significant first.
LEBytes(num) == [i \in 1..8 |-> ByteOf(num, i - 1)]
Reverse(seq) == [i \in 1..Len(seq) |-> seq[Len(seq) + 1 - i]]
IsU64Encoding(bytes, num) == bytes = LEBytes(num) \/ bytes = Reverse(LEBytes(num))

\* C8: write_block on a byte-aligned cursor appends a byte per character of
\* filename_rel (the character itself when it is ASCII), a 0x00 byte, then the
\* 8-byte encodings of tree_bit_size, data_bit_size, file_byte_offset and
\* original_byte_size in this order, and advances the cursor by
\* 8 * (length + 1 + 32) bits.
C8_BlockLayout ==
    [][(CalledOk("write_block") /\ bit_position % 8 = 0
            /\ bit_position <= BUFFER_BIT_LEN) =>
        LET block == calls'[Len(calls')].arg[1]
            n == Len(block.filename_rel)
            old == Stream
            new == StreamOf(writes', buffer', bit_position')
            off == Len(old)
        IN /\ StreamPosOf(writes', bit_position') = StreamPos + 8 * (n + 1 + 32)
           /\ Len(new) = off + n + 33
           /\ SubSeq(new, 1, off) = old
           /\ \A i \in 1..n : block.filename_rel[i] < 128 =>
                                  new[off + i] = block.filename_rel[i]
           /\ new[off + n + 1] = 0
           /\ IsU64Encoding(SubSeq(new, off + n + 2, off + n + 9), block.tree_bit_size)
           /\ IsU64Encoding(SubSeq(new, off + n + 10, off + n + 17), block.data_bit_size)
           /\ IsU64Encoding(SubSeq(new, off + n + 18, off + n + 25), block.file_byte_offset)
           /\ IsU64Encoding(SubSeq(new, off + n + 26, off + n + 33), block.og_byte_size)
      ]_vars

\* A block written after one byte, so that it starts in the middle of a buffer
\* and runs over many buffers.
C8_Witness ==
    /\ Len(calls) = 2
    /\ calls[1].op = "write_byte"
    /\ calls[2].op = "write_block"
    /\ AllOk
    /\ Len(calls[2].arg[1].filename_rel) = 3
    /\ StreamPos = 8 * (1 + 3 + 1 + 32)
    /\ Len(writes) > 2

\* C9: write_u64(n) on a byte-aligned cursor appends the 8 bytes
\* (n >> 8i) mod 256, i = 0..7, in this order, whatever the build target.
C9_LittleEndian ==
    [][(CalledOk("write_u64") /\ bit_position % 8 = 0
            /\ bit_position <= BUFFER_BIT_LEN) =>
        StreamOf(writes', buffer', bit_position')
            = Stream \o LEBytes(calls'[Len(calls')].arg[1])]_vars

WriteFailed ==
    /\ Len(writes') = Len(writes) + 1
    /\ writes'[Len(writes')].res = "Err"

\* C11: a release whose File::write returns Err ends in the panic, and a
\* release that ends normally made a File::write that returned Ok.
C11_FailedReleaseIsFatal ==
    [][DropStep =>
        /\ WriteFailed => status' = "panicked"
        /\ status' = "dropped" =>
              /\ Len(writes') = Len(writes) + 1
              /\ writes'[Len(writes')].res = "Ok"
      ]_vars

\* A writer holding a whole byte was released, the file refused the write,
\* and the program panicked with the byte in no file.
C11_Witness ==
    /\ status = "panicked"
    /\ Len(calls) >= 1
    /\ AllOk
    /\ Len(writes) = 1
    /\ writes[1].res = "Err"
    /\ Len(writes[1].data) = 1
    /\ file = <<>>

\* ------------------------------------------------------------------ C12
\* C12: align_to_byte returns Ok with the cursor at the first multiple of 8
\* that is not below it, hands nothing to the file and leaves the buffer;
\* on an aligned cursor, and so on a second call in a row, the cursor stays.
C12_AlignToByte ==
    [][Called("align_to_byte") =>
        /\ calls'[Len(calls')].res = "Ok"
        /\ bit_position' % 8 = 0
        /\ bit_position' >= bit_position
        /\ bit_position' - bit_position < 8
        /\ bit_position % 8 = 0 => bit_position' = bit_position
        /\ (Len(calls) >= 1 /\ LastCall.op = "align_to_byte") =>
               bit_position' = bit_position
        /\ buffer' = buffer
        /\ writes' = writes
        /\ file' = file
        /\ status' = status
      ]_vars

\* One bit, then align_to_byte twice: the cursor went from 1 to 8 and stayed.
C12_Witness ==
    /\ Len(calls) = 3
    /\ calls[1].op = "write_bit"
    /\ calls[2].op = "align_to_byte"
    /\ calls[3].op = "align_to_byte"
    /\ AllOk
    /\ bit_position = 8
    /\ writes = <<>>

\* ------------------------------------------------------------------ C13
\* C13: every File::write made while the writer is in use (every one but
\* the one of the release) is made with the cursor on a byte boundary.
C13_FlushAligned ==
    status = "open" => \A k \in 1..Len(writes) : writes[k].pos % 8 = 0

\* ------------------------------------------------------------------ C14
\* C14: write_byte(b) with the cursor pos in the buffer advances the cursor
\* by 8 with bit i of b at cursor position pos + i, aligned or not, and the
\* bits below pos stay.
C14_ByteAtCursor ==
    [][(CalledOk("write_byte") /\ bit_position <= BUFFER_BIT_LEN) =>
        LET b == calls'[Len(calls')].arg[1]
            p == StreamPos
        IN \E old \in {Stream}, new \in {StreamOf(writes', buffer', bit_position')} :
           /\ StreamPosOf(writes', bit_position') = p + 8
           /\ \A i \in 0..7 : BitAt(new, p + i) = (b \div (2 ^ i)) % 2
           /\ SubSeq(new, 1, p \div 8) = SubSeq(old, 1, p \div 8)
           /\ \A j \in (8 * (p \div 8))..(p - 1) : BitAt(new, j) = BitAt(old, j)
      ]_vars

\* C14 amended: write_byte(b) stores b as the whole buffer byte under the
\* cursor (after the flush of a full buffer, byte 0 of the new one), leaves
\* the other bytes and advances the cursor by 8. On an aligned cursor that
\* appends b to the stream; on a non-aligned one the bits written earlier in
\* that byte are replaced by the low bits of b.
C14_ByteUnderCursor ==
    [][CalledOk("write_byte") =>
        LET b == calls'[Len(calls')].arg[1]
            flushed == bit_position >= BUFFER_BIT_LEN
            q == IF flushed THEN 0 ELSE bit_position
        IN /\ bit_position' = q + 8
           /\ buffer'[q \div 8] = b
           /\ \A i \in (0..(BUFFER_LEN - 1)) \ {q \div 8} :
                  buffer'[i] = IF flushed THEN 0 ELSE buffer[i]
           /\ (bit_position % 8 = 0 /\ bit_position <= BUFFER_BIT_LEN) =>
                  StreamOf(writes', buffer', bit_position') = Stream \o <<b>>
      ]_vars

\* write_bit(1) then write_byte(0): the byte under the cursor is 0, the 1
\* is gone, and the cursor is at 9.
C14_Witness ==
    /\ Len(calls) = 2
    /\ calls[1].op = "write_bit"
    /\ calls[1].arg[1] = 1
    /\ calls[2].op = "write_byte"
    /\ calls[2].arg[1] = 0
    /\ AllOk
    /\ buffer[0] = 0
    /\ bit_position = 9

\* ------------------------------------------------------------------ C15
\* The bytes of a char in a str (UTF-8), for code points below 2048.
Utf8Char(c) ==
    IF c < 128 THEN <<c>> ELSE <<192 + (c \div 64), 128 + (c % 64)>>

\* The bytes of a str.
Utf8(name) == Flat([i \in 1..Len(name) |-> Utf8Char(name[i])], 1, Len(name))

\* C15: write_block of a filename_rel without a null char, on a byte-aligned
\* cursor, appends the bytes of the name, none of them 0x00, and then the
\* terminator: the first 0x00 of the block is the terminator.
C15_NameBytes ==
    [][(CalledOk("write_block") /\ bit_position % 8 = 0
            /\ bit_position <= BUFFER_BIT_LEN
            /\ \A i \in 1..Len(calls'[Len(calls')].arg[1].filename_rel) :
                   calls'[Len(calls')].arg[1].filename_rel[i] # 0) =>
        \E raw \in {Utf8(calls'[Len(calls')].arg[1].filename_rel)},
           old \in {Stream}, new \in {StreamOf(writes', buffer', bit_position')} :
           /\ SubSeq(new, Len(old) + 1, Len(old) + Len(raw)) = raw
           /\ new[Len(old) + Len(raw) + 1] = 0
           /\ \A i \in 1..Len(raw) : new[Len(old) + i] # 0
      ]_vars

\* ------------------------------------------------------------------ C16
\* C16: the call that builds the global pool fixes its size; from then on
\* the pool never changes, and a configure_thread_pool call made when the pool
\* exists does not return Ok.
C16_PoolSizedOnce ==
    [][/\ pool # <<>> => pool' = pool
       /\ (Len(pool_calls') = Len(pool_calls) + 1) =>
             LET c == pool_calls'[Len(pool_calls')]
             IN /\ (pool # <<>>) => c.res # "Ok"
                /\ (pool = <<>> /\ c.res = "Ok") => pool' = c.threads
                /\ (pool = <<>> /\ c.res # "Ok") => pool' = <<>>
      ]_vars

\* A second call asked for another size: it panicked and the pool kept the
\* size of the first call.
C16_Witness ==
    /\ Len(pool_calls) = 2
    /\ pool_calls[1].res = "Ok"
    /\ pool_calls[2].res = "Panic"
    /\ pool_calls[2].threads # pool_calls[1].threads
    /\ pool = pool_calls[1].threads

\* ------------------------------------------------------------------ C17
\* C17: no method and no release takes a slice or an index beyond the
\* buffer: no call panics, and a release panics only for a File::write that
\* returned Err.
C17_NoOutOfBounds ==
    [][/\ (Len(calls') = Len(calls) + 1) => calls'[Len(calls')].res # "Panic"
       /\ (DropStep /\ status' = "panicked") => WriteFailed
      ]_vars

\* ------------------------------------------------------------------ C18
\* C18: every bit of the buffer at or after the cursor is 0.
C18_ZeroAboveCursor ==
    \A j \in bit_position..(BUFFER_BIT_LEN - 1) :
        (buffer[j \div 8] \div (2 ^ (j % 8))) % 2 = 0

\* A buffer with 1 bits was flushed and the new one holds a 1 below a cursor
\* that is inside its first byte.
C18_Witness ==
    /\ status = "open"
    /\ Len(writes) >= 1
    /\ writes[1].res = "Ok"
    /\ \E i \in 1..Len(writes[1].data) : writes[1].data[i] # 0
    /\ bit_position % 8 # 0
    /\ bit_position < 8
    /\ buffer[0] # 0

\* ------------------------------------------------------------------ C19
\* C19: a File::write that returned Ok took every byte it was handed.
C19_FlushAppendsAll ==
    \A k \in 1..Len(writes) :
        writes[k].res = "Ok" => writes[k].n = Len(writes[k].data)

\* ------------------------------------------------------------------ C20
\* C20: after the release the file at the path holds exactly the bytes the
\* writer's File::write calls put into it.
C20_FileIsWhatWasWritten ==
    status = "dropped" => disk = file

====
